---- MODULE Spec2Model ----
(***************************************************************************)
(* udev_mapper.py: a hotplug monitor that asks the operator for a friendly *)
(* name, resolves the USB identity of the device by querying udevadm for   *)
(* the device and then its ancestors, and appends a udev rule to           *)
(* /etc/udev/rules.d/99-custom.rules.                                      *)
(*                                                                         *)
(* A Python string is modelled as the sequence of its pieces (a piece is a *)
(* character or an indivisible token such as "ID_VENDOR_ID" or "0403"), so *)
(* that strip, lower, splitlines, the substring test and split("=", 1) are *)
(* computed on the text and not assumed.  None and "" (both falsy) are the *)
(* empty sequence.  A dict is a function on the set of its keys.           *)
(***************************************************************************)
EXTENDS Integers, Sequences, FiniteSets, TLC

VARIABLES
    pc,             \* position of the single thread of control
    entry,          \* how the code was entered: "__main__" or a direct call
    store,          \* content of RULES_FILE, the sequence of its pieces
    store0,         \* content of RULES_FILE when the run began (history)
    pre,            \* content of RULES_FILE when the current event/call began (history)
    nEvents,        \* number of events monitor.poll has delivered (history)
    action,         \* device.action of the event in hand
    device,         \* the device in hand: <<dev, dev.parent, dev.parent.parent, ...>>
    parent,         \* get_device_attributes: index of `parent` in device, 0 for None
    attrs,          \* the local `attrs` (of get_device_attributes, then of the caller)
    friendly_name,  \* the local `friendly_name`
    rule,           \* append_udev_rule: the local `rule`
    buf,            \* append_udev_rule: what f.write has buffered in the open file f
    io,             \* I/O performed for the current event/call, in order (history)
    answers,        \* outcome, output and parsed attributes of each provider query of
                    \* the current resolve (history)
    exc,            \* the exception that ended the process, "" while none
    channel,        \* the notification channel: arrival numbers of the events it buffers
    nArrived,       \* number of events the kernel has put in the channel (history)
    ticket          \* arrival number of the event in hand, 0 before the first (history)

vars == <<pc, entry, store, store0, pre, nEvents, action, device, parent, attrs,
          friendly_name, rule, buf, io, answers, exc, channel, nArrived, ticket>>

(***************************************************************************)
(* Bounds of the model.                                                    *)
(***************************************************************************)
\* Largest number of ancestors of a device.
MaxChain == 2
\* Largest number of events the kernel sends in a run.
MaxEvents == 2
\* Largest number of lines of a provider output given to query_node on its own.
MaxLines == 2

(***************************************************************************)
(* Python string and dict operations.                                      *)
(***************************************************************************)
Whitespace == {" ", "\t"}

RECURSIVE lstrip(_)
lstrip(s) ==
    IF s # <<>> /\ Head(s) \in Whitespace THEN lstrip(Tail(s)) ELSE s

RECURSIVE rstrip(_)
rstrip(s) ==
    IF s # <<>> /\ s[Len(s)] \in Whitespace THEN rstrip(SubSeq(s, 1, Len(s) - 1)) ELSE s

\* str.strip()
strip(s) == rstrip(lstrip(s))

\* str.lower() on the pieces the operator can type
lower(s) == [i \in 1..Len(s) |-> IF s[i] = "Y" THEN "y" ELSE IF s[i] = "N" THEN "n" ELSE s[i]]

\* Index of the first piece of s equal to c, Len(s) + 1 when there is none.
RECURSIVE find(_, _, _)
find(s, c, i) ==
    IF i > Len(s) \/ s[i] = c THEN i ELSE find(s, c, i + 1)

\* str.splitlines()
RECURSIVE splitlines(_)
splitlines(s) ==
    IF s = <<>> THEN <<>>
    ELSE LET k == find(s, "\n", 1)
         IN  <<SubSeq(s, 1, k - 1)>> \o splitlines(SubSeq(s, k + 1, Len(s)))

\* Mutant of contains: the key must be the whole text before the first "=".
containsExactKey(line, key) == Len(line) >= 2 /\ line[1] = key /\ line[2] = "="

\* `key= in line`: the key immediately followed by "=" occurs somewhere in the line.
contains(line, key) ==
    \E i \in 1..(Len(line) - 1) : line[i] = key /\ line[i + 1] = "="

\* line.split("=", 1)[1]
split1(line) == SubSeq(line, find(line, "=", 1) + 1, Len(line))

\* {}
EmptyDict == [k \in {} |-> <<>>]

\* d[k] = v
setitem(d, k, v) == [x \in (DOMAIN d) \cup {k} |-> IF x = k THEN v ELSE d[x]]

\* a or b
Or(a, b) == IF a # <<>> THEN a ELSE b


(***************************************************************************)
(* The environment: devices, provider answers, operator input, the file.   *)
(***************************************************************************)
RULES_FILE == <<"/etc/udev/rules.d/99-custom.rules">>

\* A pyudev device at depth i of a chain; its device_node is None for a device
\* that has no node under /dev (a USB interface, a tty class device's port).
Node(i, hasNode) ==
    [device_node |-> IF hasNode THEN <<"/dev/node", i>> ELSE <<>>,
     sys_path    |-> <<"/sys/devices/", i>>]

\* A device with its ancestors: d[1] is the device, d[i + 1] is d[i].parent and
\* the last one has parent None.
Chains ==
    UNION {{[i \in 1..n |-> Node(i, f[i])] : f \in [1..n -> BOOLEAN]} : n \in 1..(MaxChain + 1)}

\* The events monitor.poll can deliver.
Events == [action : {"add", "remove", "change"}, device : Chains]

\* One line of `udevadm info --query=all` output for a property of the device.
PropertyLine(key, value) == <<"E: ", key, "=", value, "\n">>

DumpPlain  == <<"P: /devices/pci0000:00/usb1/1-1", "\n">> \o PropertyLine("DEVNAME", "/dev/ttyUSB0")
DumpVendor == DumpPlain \o PropertyLine("ID_VENDOR_ID", "0403")
DumpVP     == DumpVendor \o PropertyLine("ID_MODEL_ID", "6001")
DumpVPS    == DumpVP \o PropertyLine("ID_SERIAL_SHORT", "A1B2")
DumpHub    == PropertyLine("ID_MODEL_ID", "0002") \o PropertyLine("ID_VENDOR_ID", "1d6b")
DumpSerial == DumpPlain \o PropertyLine("ID_SERIAL_SHORT", "A1B2")

\* What udevadm can print on standard output when it exits with status 0.
Dumps == {DumpPlain, DumpVendor, DumpVP, DumpVPS, DumpHub, DumpSerial}

\* How subprocess.check_output can end: the output of a run that exited 0,
\* CalledProcessError for a non-zero exit, OSError when udevadm cannot be run.
Outcomes ==
    {[kind |-> "ok", output |-> d] : d \in Dumps}
        \cup {[kind |-> "CalledProcessError", output |-> <<>>],
              [kind |-> "OSError", output |-> <<>>]}

\* What the operator can type at the confirmation prompt.
ConfirmInputs == {<<>>, <<"y">>, <<"Y">>, <<" ", "y", " ">>, <<"n">>, <<"y", "e", "s">>}

\* What the operator can type at the name prompt: input() returns one line
\* without its newline.
NameInputs == {<<>>, <<" ">>, <<"arduino">>, <<" ", "arduino", " ">>, <<"cam", "\"", "0">>}

\* How open(RULES_FILE, "a") can end.
OpenResults == {"ok", "PermissionError", "OSError"}

\* What RULES_FILE can hold before the run.
InitialStores == {<<>>, <<"# local rules", "\n", "KERNEL==\"ttyACM0\", MODE=\"0666\"", "\n">>}

(***************************************************************************)
(* get_device_attributes                                                   *)
(***************************************************************************)
\* The loop body of query_node over the lines of the output, from `attrs`.
RECURSIVE parse(_, _)
parse(lines, a) ==
    IF lines = <<>> THEN a
    ELSE LET line == Head(lines)
         IN  parse(Tail(lines),
                   IF contains(line, "ID_VENDOR_ID") THEN setitem(a, "idVendor", split1(line))
                   ELSE IF contains(line, "ID_MODEL_ID") THEN setitem(a, "idProduct", split1(line))
                   ELSE IF contains(line, "ID_SERIAL_SHORT") THEN setitem(a, "serial", split1(line))
                   ELSE a)

\* Mutant of query_node: the attributes of the node before are kept.
query_nodeMerging(outcome) ==
    IF outcome.kind = "CalledProcessError" THEN EmptyDict
    ELSE parse(splitlines(outcome.output), attrs)

\* query_node, for an outcome of check_output that is not an OSError.
query_node(outcome) ==
    IF outcome.kind = "CalledProcessError" THEN EmptyDict
    ELSE parse(splitlines(outcome.output), EmptyDict)

\* Lines udevadm can print, with and without the "E: " it puts before a
\* property, with one of the three names as the key, inside a longer key, and
\* inside the value.
ProbeLines ==
    {<<"E: ", "ID_VENDOR_ID", "=", "0403">>,
     <<"ID_MODEL_ID", "=", "6001">>,
     <<"E: ", "ID_SERIAL_SHORT", "=", "A1B2">>,
     <<"E: ", "ID_VENDOR_ID", "_OLD", "=", "ffff">>,
     <<"E: ", "DEVLINKS", "=", "/dev/serial/by-id/x", " ", "ID_VENDOR_ID", "=", "dead">>,
     <<"E: ", "ID_MODEL_ID", "=", "ID_SERIAL_SHORT", "=", "beef">>,
     <<"N: ", "ttyUSB0">>}

\* The text of a sequence of lines, each ended by a newline.
RECURSIVE Joined(_)
Joined(lines) ==
    IF lines = <<>> THEN <<>> ELSE Head(lines) \o <<"\n">> \o Joined(Tail(lines))

\* The outputs given to query_node when it is examined on its own.
ProbeDumps == {Joined(ls) : ls \in UNION {[1..n -> ProbeLines] : n \in 0..MaxLines}}

ProbeOutcomes ==
    {[kind |-> "ok", output |-> d] : d \in ProbeDumps}
        \cup {[kind |-> "CalledProcessError", output |-> <<>>],
              [kind |-> "OSError", output |-> <<>>]}

\* Mutant of IsComplete: the serial is demanded too before the walk stops.
IsCompleteWithSerial(a) == {"idVendor", "idProduct", "serial"} \subseteq DOMAIN a

\* "idVendor" in attrs and "idProduct" in attrs
IsComplete(a) == "idVendor" \in DOMAIN a /\ "idProduct" \in DOMAIN a

\* Mutant of Target: the sysfs path whatever the device node is.
TargetSysOnly(node) == node.sys_path

\* node.device_node or node.sys_path
Target(node) == Or(node.device_node, node.sys_path)

\* Mutant of ParentOf: parent.parent.parent, one ancestor is skipped.
ParentSkip(d, i) == IF i + 1 < Len(d) THEN i + 2 ELSE 0

\* d[i].parent as an index, 0 for None
ParentOf(d, i) == IF i < Len(d) THEN i + 1 ELSE 0

\* Mutant of Exhausted: the attributes of the last node queried are returned.
ExhaustedKeep(a) == a

\* The value returned when the parent chain is exhausted.
Exhausted(a) == EmptyDict

\* An exception nobody catches leaves monitor_devices and the process.
Raise(e) ==
    /\ pc' = "crashed"
    /\ exc' = e

\* Lines 15-32: query_node(node) on its own, for every output of the provider.
QueryDirect ==
    /\ pc = "query_node"
    /\ \E outcome \in ProbeOutcomes :
        /\ io' = Append(io, [op |-> "query", arg |-> Target(device[1])])
        /\ IF outcome.kind = "OSError"
           THEN /\ Raise("OSError")
                /\ answers' = Append(answers, [kind |-> outcome.kind,
                                              output |-> outcome.output,
                                              attrs |-> EmptyDict])
                /\ attrs' = attrs
           ELSE /\ attrs' = query_node(outcome)
                /\ answers' = Append(answers, [kind |-> outcome.kind,
                                              output |-> outcome.output,
                                              attrs |-> attrs'])
                /\ pc' = "queried"
                /\ exc' = exc
    /\ UNCHANGED <<entry, store, store0, pre, nEvents, action, device, parent,
                   friendly_name, rule, buf, channel, nArrived, ticket>>

\* Lines 35-38 and 41: query the device itself.
QuerySelf ==
    /\ pc = "query_self"
    /\ \E outcome \in Outcomes :
        LET node == Target(device[1])
        IN  /\ io' = Append(io, [op |-> "query", arg |-> node])
            /\ IF outcome.kind = "OSError"
               THEN /\ Raise("OSError")
                    /\ answers' = Append(answers, [kind |-> outcome.kind,
                                                  output |-> outcome.output,
                                                  attrs |-> EmptyDict])
                    /\ UNCHANGED <<attrs, parent>>
               ELSE LET a == query_node(outcome)
                    IN  /\ attrs' = a
                        /\ answers' = Append(answers, [kind |-> outcome.kind,
                                                      output |-> outcome.output,
                                                      attrs |-> a])
                        /\ exc' = exc
                        /\ IF IsComplete(a)
                           THEN pc' = "resolved" /\ parent' = parent
                           ELSE pc' = "walk" /\ parent' = ParentOf(device, 1)
    /\ UNCHANGED <<entry, store, store0, pre, nEvents, action, device, friendly_name, rule, buf>>
    /\ UNCHANGED <<channel, nArrived, ticket>>

\* Lines 42-47: one turn of the while loop.
WalkQuery ==
    /\ pc = "walk"
    /\ parent # 0
    /\ \E outcome \in Outcomes :
        LET node == Target(device[parent])
        IN  /\ io' = Append(io, [op |-> "query", arg |-> node])
            /\ IF outcome.kind = "OSError"
               THEN /\ Raise("OSError")
                    /\ answers' = Append(answers, [kind |-> outcome.kind,
                                                  output |-> outcome.output,
                                                  attrs |-> EmptyDict])
                    /\ UNCHANGED <<attrs, parent>>
               ELSE LET a == query_node(outcome)
                    IN  /\ attrs' = a
                        /\ answers' = Append(answers, [kind |-> outcome.kind,
                                                      output |-> outcome.output,
                                                      attrs |-> a])
                        /\ exc' = exc
                        /\ IF IsComplete(a)
                           THEN pc' = "resolved" /\ parent' = parent
                           ELSE pc' = "walk" /\ parent' = ParentOf(device, parent)
    /\ UNCHANGED <<entry, store, store0, pre, nEvents, action, device, friendly_name, rule, buf>>
    /\ UNCHANGED <<channel, nArrived, ticket>>

\* Lines 42 and 49: the loop ends with parent None.
WalkEnd ==
    /\ pc = "walk"
    /\ parent = 0
    /\ attrs' = Exhausted(attrs)
    /\ pc' = "resolved"
    /\ UNCHANGED <<entry, store, store0, pre, nEvents, action, device, parent,
                   friendly_name, rule, buf, io, answers, exc>>
    /\ UNCHANGED <<channel, nArrived, ticket>>

(***************************************************************************)
(* append_udev_rule                                                        *)
(***************************************************************************)
\* all(k in attrs for k in ("idVendor", "idProduct", "serial"))
HasRequired(a) == {"idVendor", "idProduct", "serial"} \subseteq DOMAIN a

\* Mutant of Render: the vendor and the product are swapped.
RenderSwapped(a, name) ==
    <<"SUBSYSTEM==\"tty|video4linux\", ATTRS{idVendor}==\"">> \o a["idProduct"]
        \o <<"\", ATTRS{idProduct}==\"">> \o a["idVendor"]
        \o <<"\", ATTRS{serial}==\"">> \o a["serial"]
        \o <<"\", SYMLINK+=\"">> \o name \o <<"\"", "\n">>

\* The f-string of lines 58-62.
Render(a, name) ==
    <<"SUBSYSTEM==\"tty|video4linux\", ATTRS{idVendor}==\"">> \o a["idVendor"]
        \o <<"\", ATTRS{idProduct}==\"">> \o a["idProduct"]
        \o <<"\", ATTRS{serial}==\"">> \o a["serial"]
        \o <<"\", SYMLINK+=\"">> \o name \o <<"\"", "\n">>

\* Mutant of Opened: mode "w", the file is truncated.
OpenedTruncated(content) == <<>>

\* The content of the file once open(RULES_FILE, "a") has succeeded.
Opened(content) == content

\* Mutant of Flushed: the data lands in front of the old content.
FlushedFront(content, data) == data \o content

\* Mutant of Flushed: the last piece of the data does not reach the file.
FlushedTorn(content, data) == content \o SubSeq(data, 1, Len(data) - 1)

\* The content of the file once f, opened for appending, is flushed and closed.
Flushed(content, data) == content \o data

Printed(msg) == [op |-> "print", arg |-> <<msg>>]

\* Mutant of AppendCheck: the file is opened before the attributes are checked.
AppendCheckLate ==
    /\ pc = "append"
    /\ IF {"idVendor", "idProduct", "serial"} \subseteq DOMAIN attrs
       THEN /\ rule' = Render(attrs, friendly_name)
            /\ pc' = "open"
            /\ io' = io
       ELSE /\ io' = io \o <<[op |-> "open", arg |-> RULES_FILE],
                             Printed("missing required attributes")>>
            /\ pc' = "appended"
            /\ rule' = rule
    /\ UNCHANGED <<entry, store, store0, pre, nEvents, action, device, parent, attrs,
                   friendly_name, buf, answers, exc>>
    /\ UNCHANGED <<channel, nArrived, ticket>>

\* Lines 54-62: the check of the attributes, then the rule.
AppendCheck ==
    /\ pc = "append"
    /\ IF ~HasRequired(attrs)
       THEN /\ io' = Append(io, Printed("missing required attributes"))
            /\ pc' = "appended"
            /\ rule' = rule
       ELSE /\ rule' = Render(attrs, friendly_name)
            /\ pc' = "open"
            /\ io' = io
    /\ UNCHANGED <<entry, store, store0, pre, nEvents, action, device, parent, attrs,
                   friendly_name, buf, answers, exc>>
    /\ UNCHANGED <<channel, nArrived, ticket>>

\* Lines 64-65 and 68-69: open(RULES_FILE, "a").
Open ==
    /\ pc = "open"
    /\ \E result \in OpenResults :
        LET io1 == Append(io, [op |-> "open", arg |-> RULES_FILE])
        IN  CASE result = "ok" ->
                    /\ store' = Opened(store)
                    /\ buf' = <<>>
                    /\ io' = io1
                    /\ pc' = "write"
                    /\ exc' = exc
              [] result = "PermissionError" ->
                    /\ io' = Append(io1, Printed("Permission denied"))
                    /\ pc' = "appended"
                    /\ UNCHANGED <<store, buf, exc>>
              [] OTHER ->
                    /\ Raise(result)
                    /\ io' = io1
                    /\ UNCHANGED <<store, buf>>
    /\ UNCHANGED <<entry, store0, pre, nEvents, action, device, parent, attrs,
                   friendly_name, rule, answers>>
    /\ UNCHANGED <<channel, nArrived, ticket>>

\* Line 66: f.write(rule) into the buffer of f.
Write ==
    /\ pc = "write"
    /\ buf' = buf \o rule
    /\ io' = Append(io, [op |-> "write", arg |-> rule])
    /\ pc' = "close"
    /\ UNCHANGED <<entry, store, store0, pre, nEvents, action, device, parent, attrs,
                   friendly_name, rule, answers, exc>>
    /\ UNCHANGED <<channel, nArrived, ticket>>

\* Lines 65-67: leaving the with block flushes and closes f, then the message.
Close ==
    /\ pc = "close"
    /\ store' = Flushed(store, buf)
    /\ buf' = <<>>
    /\ io' = Append(io, Printed("Rule added"))
    /\ pc' = "appended"
    /\ UNCHANGED <<entry, store0, pre, nEvents, action, device, parent, attrs,
                   friendly_name, rule, answers, exc>>
    /\ UNCHANGED <<channel, nArrived, ticket>>

(***************************************************************************)
(* monitor_devices and __main__                                            *)
(***************************************************************************)
\* Mutant of Discarded: only the action is looked at.
DiscardedActionOnly(ev) == ev.action # "add"

\* device.action != "add" or not device.device_node
Discarded(ev) == ev.action # "add" \/ ev.device[1].device_node = <<>>

\* confirm != "y", for the line the operator typed
Declined(raw) == lower(strip(raw)) # <<"y">>

\* Mutant of NoName: the check of the name is dropped.
NoNameNever(name) == FALSE

\* not friendly_name
NoName(name) == name = <<>>

\* Mutant of NoAttrs: the check of the result is dropped.
NoAttrsNever(a) == FALSE

\* not attrs
NoAttrs(a) == DOMAIN a = {}

\* The kernel sends an event while the monitor is subscribed: it waits in the
\* channel, at the end.  What the event holds is drawn when it is delivered:
\* nothing reads it before.
Arrive ==
    /\ entry = "__main__"
    /\ pc \notin {"exited", "crashed"}
    /\ nArrived < MaxEvents
    /\ nArrived' = nArrived + 1
    /\ channel' = Append(channel, nArrived + 1)
    /\ UNCHANGED <<pc, entry, store, store0, pre, nEvents, action, device, parent, attrs,
                   friendly_name, rule, buf, io, answers, exc, ticket>>

\* Mutant of Received: the newest event of the channel is delivered.
ReceivedLast(ch) == ch[Len(ch)]

\* monitor.poll() returns the oldest event of the channel.
Received(ch) == Head(ch)

\* Lines 82-87: the next event.  The locals of the previous turn of the loop
\* are dead from here on and are cleared; the histories start anew.
Poll ==
    /\ pc = "poll"
    /\ channel # <<>>
    /\ ticket' = Received(channel)
    /\ channel' = Tail(channel)
    /\ nArrived' = nArrived
    /\ \E ev \in Events :
        /\ action' = ev.action
        /\ device' = ev.device
        /\ IF Discarded(ev)
           THEN pc' = "poll" /\ io' = <<>>
           ELSE pc' = "confirm" /\ io' = <<Printed("Detected new device")>>
    /\ nEvents' = nEvents + 1
    /\ pre' = store
    /\ parent' = 0
    /\ attrs' = EmptyDict
    /\ friendly_name' = <<>>
    /\ rule' = <<>>
    /\ answers' = <<>>
    /\ UNCHANGED <<entry, store, store0, buf, exc>>

\* Mutant of Confirm: after a yes the device is resolved at once, the name
\* prompt is passed over.
ConfirmThenResolve ==
    /\ pc = "confirm"
    /\ \E raw \in ConfirmInputs :
        pc' = IF lower(strip(raw)) # <<"y">> THEN "poll" ELSE "query_self"
    /\ io' = Append(io, [op |-> "input", arg |-> <<"confirm">>])
    /\ UNCHANGED <<entry, store, store0, pre, nEvents, action, device, parent, attrs,
                   friendly_name, rule, buf, answers, exc>>
    /\ UNCHANGED <<channel, nArrived, ticket>>

\* Lines 89-91: the confirmation prompt.
Confirm ==
    /\ pc = "confirm"
    /\ \E raw \in ConfirmInputs :
        pc' = IF Declined(raw) THEN "poll" ELSE "name"
    /\ io' = Append(io, [op |-> "input", arg |-> <<"confirm">>])
    /\ UNCHANGED <<entry, store, store0, pre, nEvents, action, device, parent, attrs,
                   friendly_name, rule, buf, answers, exc>>
    /\ UNCHANGED <<channel, nArrived, ticket>>

\* Lines 93-98: the name prompt, then the call of get_device_attributes.
Name ==
    /\ pc = "name"
    /\ \E raw \in NameInputs :
        /\ friendly_name' = strip(raw)
        /\ IF NoName(friendly_name')
           THEN /\ pc' = "poll"
                /\ io' = io \o <<[op |-> "input", arg |-> <<"name">>], Printed("No name entered")>>
           ELSE /\ pc' = "query_self"
                /\ io' = Append(io, [op |-> "input", arg |-> <<"name">>])
    /\ UNCHANGED <<entry, store, store0, pre, nEvents, action, device, parent, attrs,
                   rule, buf, answers, exc>>
    /\ UNCHANGED <<channel, nArrived, ticket>>

\* Lines 98-103: back from get_device_attributes.
MonitorResolved ==
    /\ pc = "resolved"
    /\ entry = "__main__"
    /\ IF NoAttrs(attrs)
       THEN /\ pc' = "poll"
            /\ io' = Append(io, Printed("Unable to retrieve USB attributes"))
       ELSE /\ pc' = "append"
            /\ io' = io
    /\ UNCHANGED <<entry, store, store0, pre, nEvents, action, device, parent, attrs,
                   friendly_name, rule, buf, answers, exc>>
    /\ UNCHANGED <<channel, nArrived, ticket>>

\* Lines 105-107: back from append_udev_rule, the file is shown.
Cat ==
    /\ pc = "appended"
    /\ entry = "__main__"
    /\ io' = Append(io, [op |-> "cat", arg |-> RULES_FILE])
    /\ pc' = "poll"
    /\ UNCHANGED <<entry, store, store0, pre, nEvents, action, device, parent, attrs,
                   friendly_name, rule, buf, answers, exc>>
    /\ UNCHANGED <<channel, nArrived, ticket>>

\* Lines 110-115: Ctrl+C anywhere in monitor_devices.  The with block of
\* append_udev_rule closes f on the way out, which flushes what was written.
Interrupt ==
    /\ entry = "__main__"
    /\ pc \notin {"exited", "crashed"}
    /\ store' = IF pc = "close" THEN Flushed(store, buf) ELSE store
    /\ buf' = <<>>
    /\ pc' = "exited"
    /\ exc' = "KeyboardInterrupt"
    /\ UNCHANGED <<entry, store0, pre, nEvents, action, device, parent, attrs,
                   friendly_name, rule, io, answers>>
    /\ UNCHANGED <<channel, nArrived, ticket>>

(***************************************************************************)
(* Specifications.                                                         *)
(***************************************************************************)
\* The script: monitor_devices() has subscribed and waits for an event.
Init ==
    /\ pc = "poll"
    /\ entry = "__main__"
    /\ store \in InitialStores
    /\ store0 = store
    /\ pre = store
    /\ nEvents = 0
    /\ action = ""
    /\ device = <<>>
    /\ parent = 0
    /\ attrs = EmptyDict
    /\ friendly_name = <<>>
    /\ rule = <<>>
    /\ buf = <<>>
    /\ io = <<>>
    /\ answers = <<>>
    /\ exc = ""
    /\ channel = <<>>
    /\ nArrived = 0
    /\ ticket = 0

\* The attribute sets a direct caller passes: every subset of a full set.
DirectAttrs ==
    LET full == parse(splitlines(DumpVPS), EmptyDict)
    IN  {[k \in K |-> full[k]] : K \in SUBSET (DOMAIN full)}

\* get_device_attributes(dev) called on its own, for every device.
InitResolve ==
    /\ pc = "query_self"
    /\ entry = "get_device_attributes"
    /\ device \in Chains
    /\ store \in InitialStores
    /\ store0 = store
    /\ pre = store
    /\ nEvents = 0
    /\ action = ""
    /\ parent = 0
    /\ attrs = EmptyDict
    /\ friendly_name = <<>>
    /\ rule = <<>>
    /\ buf = <<>>
    /\ io = <<>>
    /\ answers = <<>>
    /\ exc = ""
    /\ channel = <<>>
    /\ nArrived = 0
    /\ ticket = 0

\* append_udev_rule(attrs, friendly_name) called on its own, for every argument.
InitAppend ==
    /\ pc = "append"
    /\ entry = "append_udev_rule"
    /\ attrs \in DirectAttrs
    /\ friendly_name \in NameInputs
    /\ store \in InitialStores
    /\ store0 = store
    /\ pre = store
    /\ nEvents = 0
    /\ action = ""
    /\ device = <<>>
    /\ parent = 0
    /\ rule = <<>>
    /\ buf = <<>>
    /\ io = <<>>
    /\ answers = <<>>
    /\ exc = ""
    /\ channel = <<>>
    /\ nArrived = 0
    /\ ticket = 0

InitModule == Init \/ InitResolve \/ InitAppend

\* query_node(node) called on its own, for every node.
InitParse ==
    /\ pc = "query_node"
    /\ entry = "query_node"
    /\ device \in {d \in Chains : Len(d) = 1}
    /\ store \in InitialStores
    /\ store0 = store
    /\ pre = store
    /\ nEvents = 0
    /\ action = ""
    /\ parent = 0
    /\ attrs = EmptyDict
    /\ friendly_name = <<>>
    /\ rule = <<>>
    /\ buf = <<>>
    /\ io = <<>>
    /\ answers = <<>>
    /\ exc = ""
    /\ channel = <<>>
    /\ nArrived = 0
    /\ ticket = 0

Next ==
    \/ Arrive
    \/ Poll
    \/ Confirm
    \/ Name
    \/ QuerySelf
    \/ WalkQuery
    \/ WalkEnd
    \/ MonitorResolved
    \/ AppendCheck
    \/ Open
    \/ Write
    \/ Close
    \/ Cat
    \/ Interrupt

\* The program run as a script.
Spec == Init /\ [][Next]_vars

\* The script, and the two functions called directly.
SpecModule == InitModule /\ [][Next]_vars

\* query_node called directly.
SpecParse == InitParse /\ [][QueryDirect]_vars

\* get_device_attributes called directly; every provider query comes to an
\* end, and nothing else in the function waits.
NextResolve ==
    \/ QuerySelf
    \/ WalkQuery
    \/ WalkEnd

SpecResolve == InitResolve /\ [][NextResolve]_vars /\ WF_vars(NextResolve)

(***************************************************************************)
(* Properties.                                                             *)
(***************************************************************************)
\* The entries of io with the given op, in order.
Ops(name) == SelectSeq(io, LAMBDA e : e.op = name)

\* An attribute set with both mandatory keys.
HasBoth(a) == {"idVendor", "idProduct"} \subseteq DOMAIN a

\* An attribute set with the three keys a rule needs.
HasAll(a) == {"idVendor", "idProduct", "serial"} \subseteq DOMAIN a

\* The k-th provider query of the resolve in hand went to the k-th node of the
\* chain, leaf first, by its device node when it has one and its sysfs path
\* otherwise.
InChainOrder ==
    /\ Len(Ops("query")) = Len(answers)
    /\ Len(answers) <= Len(device)
    /\ \A k \in 1..Len(answers) :
        Ops("query")[k].arg =
            IF device[k].device_node # <<>> THEN device[k].device_node ELSE device[k].sys_path

\* C1: when the query of the device itself yields idVendor and idProduct,
\* get_device_attributes returns that very set and queries no ancestor,
\* whether or not the set has a serial.
C1_OwnCompleteStopsWalk ==
    (answers # <<>> /\ HasBoth(answers[1].attrs))
        => /\ Len(answers) = 1
           /\ Len(Ops("query")) = 1
           /\ InChainOrder
           /\ pc # "walk"
           /\ attrs = answers[1].attrs

\* C1 witness: a device with ancestors whose own answer has vendor and product
\* but no serial, and get_device_attributes has returned.
C1_Witness ==
    /\ pc = "resolved"
    /\ Len(device) >= 2
    /\ DOMAIN answers[1].attrs = {"idVendor", "idProduct"}
    /\ DOMAIN attrs = {"idVendor", "idProduct"}

\* C2: when the device's own answer is incomplete and an ancestor's answer is
\* complete, the walk went up one parent at a time, the first complete answer
\* is the last query made, and its set is what is returned.
C2_NearestCompleteAncestor ==
    \A i \in 2..Len(answers) :
        (HasBoth(answers[i].attrs) /\ \A j \in 1..(i - 1) : ~HasBoth(answers[j].attrs))
            => /\ Len(answers) = i
               /\ InChainOrder
               /\ pc # "walk"
               /\ attrs = answers[i].attrs

\* C2 witness: the parent answered completely, a grandparent exists and was
\* not queried.
C2_Witness ==
    /\ pc = "resolved"
    /\ Len(device) = 3
    /\ Len(answers) = 2
    /\ ~HasBoth(answers[1].attrs)
    /\ HasBoth(attrs)

\* C3: when get_device_attributes has returned and no answer on the way was
\* complete, every node up to the root was queried in order and the result is
\* the empty set, whatever partial attributes were seen.
C3_ExhaustedChainIsEmpty ==
    (pc = "resolved" /\ \A i \in 1..Len(answers) : ~HasBoth(answers[i].attrs))
        => /\ DOMAIN attrs = {}
           /\ Len(answers) = Len(device)
           /\ InChainOrder

\* C3 witness: a chain of three, the root answered with a lone idVendor, the
\* result is empty.
C3_Witness ==
    /\ pc = "resolved"
    /\ Len(device) = 3
    /\ Len(answers) = 3
    /\ DOMAIN answers[3].attrs = {"idVendor"}
    /\ DOMAIN attrs = {}

\* C4: a provider query that fails never ends get_device_attributes with an
\* error: the process is never brought down by a query.
C4_QueryNeverRaises ==
    ~(pc = "crashed" /\ io # <<>> /\ io[Len(io)].op = "query")

\* What the current event/call has added to the file.
Added == SubSeq(store, Len(pre) + 1, Len(store))

\* The number of newlines in a text.
RECURSIVE Newlines(_)
Newlines(s) ==
    IF s = <<>> THEN 0 ELSE (IF Head(s) = "\n" THEN 1 ELSE 0) + Newlines(Tail(s))

\* The rule line the spec prescribes for three values and a name.
RuleLine(vendor, product, serial, name) ==
    <<"SUBSYSTEM==\"tty|video4linux\", ATTRS{idVendor}==\"">> \o vendor
        \o <<"\", ATTRS{idProduct}==\"">> \o product
        \o <<"\", ATTRS{serial}==\"">> \o serial
        \o <<"\", SYMLINK+=\"">> \o name \o <<"\"">> \o <<"\n">>

\* C5: with an attribute set that lacks idVendor, idProduct or serial,
\* append_udev_rule never opens the file, leaves it as it was and returns
\* after the rejection message, whatever the name.
C5_MissingAttrsNoOpen ==
    ~HasAll(attrs)
        => /\ pc \notin {"open", "write", "close"}
           /\ Ops("open") = <<>>
           /\ Ops("write") = <<>>
           /\ store = pre
           /\ pc = "appended" => io[Len(io)].arg = <<"missing required attributes">>

\* C5 witness: append_udev_rule has returned for a set with vendor and product
\* but no serial.
C5_Witness ==
    /\ pc = "appended"
    /\ DOMAIN attrs = {"idVendor", "idProduct"}
    /\ friendly_name # <<>>

\* The open of the current call was refused for lack of permission.
Refused == \E i \in 1..Len(Ops("print")) : Ops("print")[i].arg = <<"Permission denied">>

\* C6: once append_udev_rule has returned from a call with the three
\* attributes and a non-empty name in which the file could be opened, the file
\* holds its prior content, untouched, followed by one new line and nothing
\* else; the file was opened once and written once.
C6_AppendsExactlyOneLine ==
    (pc = "appended" /\ HasAll(attrs) /\ friendly_name # <<>> /\ ~Refused)
        => /\ Len(store) > Len(pre)
           /\ SubSeq(store, 1, Len(pre)) = pre
           /\ Newlines(Added) = 1
           /\ Added[Len(Added)] = "\n"
           /\ Len(Ops("open")) = 1
           /\ Len(Ops("write")) = 1

\* C6 witness: a rule was appended to a file that already held other lines.
C6_Witness ==
    /\ pc = "appended"
    /\ HasAll(attrs)
    /\ friendly_name # <<>>
    /\ Ops("write") # <<>>
    /\ pre # <<>>
    /\ store # pre

\* C7: the text a successful append_udev_rule adds is the prescribed line for
\* the three values of attrs and the name, in that order, with a newline; for
\* a leaf that yields only idVendor 0403, a parent that yields 0403, 6001 and
\* A1B2, and the name arduino, it is the line with 0403, 6001, A1B2, arduino.
C7_RuleLineFormat ==
    (pc = "appended" /\ Ops("write") # <<>>)
        => /\ Added = RuleLine(attrs["idVendor"], attrs["idProduct"], attrs["serial"],
                               friendly_name)
           /\ (/\ Len(answers) = 2
               /\ DOMAIN answers[1].attrs = {"idVendor"}
               /\ answers[2].attrs = [idVendor |-> <<"0403">>, idProduct |-> <<"6001">>,
                                      serial |-> <<"A1B2">>]
               /\ friendly_name = <<"arduino">>)
               => Added = <<"SUBSYSTEM==\"tty|video4linux\", ATTRS{idVendor}==\"", "0403",
                            "\", ATTRS{idProduct}==\"", "6001",
                            "\", ATTRS{serial}==\"", "A1B2",
                            "\", SYMLINK+=\"", "arduino", "\"", "\n">>

\* C7 witness: the scenario, up to the return of append_udev_rule.
C7_Witness ==
    /\ pc = "appended"
    /\ Ops("write") # <<>>
    /\ Len(answers) = 2
    /\ answers[1].attrs = [idVendor |-> <<"0403">>]
    /\ answers[2].attrs = [idVendor |-> <<"0403">>, idProduct |-> <<"6001">>,
                           serial |-> <<"A1B2">>]
    /\ friendly_name = <<"arduino">>

\* A complete rule line: the fixed head, the closing quote, one newline, last.
IsRuleLine(s) ==
    /\ Len(s) >= 3
    /\ s[1] = "SUBSYSTEM==\"tty|video4linux\", ATTRS{idVendor}==\""
    /\ s[Len(s) - 1] = "\""
    /\ s[Len(s)] = "\n"
    /\ Newlines(s) = 1

\* C8: every step of a run leaves the file as it is or adds one complete rule
\* line at its end: nothing is truncated, rewritten or reordered.
C8_StoreAppendOnly ==
    [][\/ store' = store
       \/ /\ Len(store') > Len(store)
          /\ SubSeq(store', 1, Len(store)) = store
          /\ IsRuleLine(SubSeq(store', Len(store) + 1, Len(store')))]_vars

\* C8 witness: the file began with unrelated lines and two rules were added.
C8_Witness ==
    /\ store0 # <<>>
    /\ SubSeq(store, 1, Len(store0)) = store0
    /\ Newlines(store) = Newlines(store0) + 2

\* C9: a failure to open the file for writing never brings the process down.
C9_OpenFailureNeverCrashes ==
    ~(pc = "crashed" /\ io # <<>> /\ io[Len(io)].op = "open")

\* C10, as stated: append_udev_rule with an empty name goes no further than
\* its checks: it opens nothing, writes nothing and leaves the file alone.
C10_EmptyNameRefusedByAppend ==
    (friendly_name = <<>> /\ entry = "append_udev_rule")
        => /\ pc \notin {"open", "write", "close"}
           /\ Ops("open") = <<>>
           /\ store = pre

\* C10, amended: the check of the name is in monitor_devices: in the loop an
\* empty name (after strip) leads to no provider query, no call of
\* append_udev_rule, no open and no write, and the file is left alone.
C10_EmptyNameRefusedByLoop ==
    (friendly_name = <<>> /\ entry = "__main__")
        => /\ pc \in {"poll", "confirm", "name", "exited"}
           /\ Ops("query") = <<>>
           /\ Ops("open") = <<>>
           /\ Ops("write") = <<>>
           /\ store = pre

\* C10 witness: the operator confirmed and then typed an empty name.
C10_Witness ==
    /\ entry = "__main__"
    /\ pc = "poll"
    /\ io # <<>>
    /\ io[Len(io)].arg = <<"No name entered">>

\* C11: the name in every rule the tool has written is non-empty and holds no
\* double quote and no newline.
C11_NameKeepsRuleSyntax ==
    (pc = "appended" /\ Ops("write") # <<>>)
        => /\ friendly_name # <<>>
           /\ \A i \in 1..Len(friendly_name) : friendly_name[i] \notin {"\"", "\n"}

\* C12: for an event that is not an add, or has no device node, the loop does
\* nothing: no prompt, no provider query, no print, no open, no write, and it
\* is back at the event source (or interrupted there).
C12_OnlyAddWithNodeHandled ==
    (entry = "__main__" /\ nEvents > 0
        /\ (action # "add" \/ device[1].device_node = <<>>))
        => /\ pc \in {"poll", "exited"}
           /\ io = <<>>
           /\ store = pre

\* C12 witness: an add event without a device node was delivered and passed over.
C12_Witness ==
    /\ entry = "__main__"
    /\ nEvents > 0
    /\ pc = "poll"
    /\ action = "add"
    /\ device[1].device_node = <<>>

\* The places of io that hold a prompt of the given kind.
Prompts(kind) == {i \in 1..Len(io) : io[i].op = "input" /\ io[i].arg = <<kind>>}

\* The places of io that hold the given operation.
Places(name) == {i \in 1..Len(io) : io[i].op = name}

\* Every place of the set later has a place of the set earlier before it.
Precedes(earlier, later) == \A i \in later : \E j \in earlier : j < i

C14_ListedConditionsNotFatal ==
    [][pc' = "crashed" => pc = "open"]_vars

\* C15: once get_device_attributes has returned to the loop with less than
\* idVendor and idProduct, the result is empty, append_udev_rule is not called
\* (nothing of it is seen: no message, no open, no write, no listing), the
\* file is as it was and the loop is back at the event source.
C15_IncompleteNeverAppends ==
    (entry = "__main__" /\ answers # <<>>
        /\ pc \notin {"query_self", "walk", "crashed", "exited"} /\ ~HasBoth(attrs))
        => /\ DOMAIN attrs = {}
           /\ pc \in {"resolved", "poll"}
           /\ Places("open") = {}
           /\ Places("write") = {}
           /\ Places("cat") = {}
           /\ \A i \in Places("print") : io[i].arg # <<"missing required attributes">>
           /\ store = pre

\* C15 witness: the provider exited non-zero for the node and for its single
\* parent, and the loop is back at the event source.
C15_Witness ==
    /\ entry = "__main__"
    /\ pc = "poll"
    /\ Len(device) = 2
    /\ Len(answers) = 2
    /\ answers[1].kind = "CalledProcessError"
    /\ answers[2].kind = "CalledProcessError"
    /\ io[Len(io)].arg = <<"Unable to retrieve USB attributes">>

\* The channel holds exactly the events that arrived and were not delivered
\* yet, oldest first, and the event in hand is the newest one delivered.
OneAtATime ==
    /\ nEvents <= nArrived
    /\ channel = [i \in 1..(nArrived - nEvents) |-> nEvents + i]
    /\ ticket = nEvents

C17_InterruptWritesNothing ==
    [][pc' = "exited" => store' = store]_vars

\* C17, amended: an interrupt can come at every suspension point of the loop
\* and ends it for good with a normal exit; the file then holds what it held
\* when the interrupt came, followed, when the interrupt came inside the with
\* block after f.write, by the one complete rule line that closing the file
\* flushes: never a part of a record.
C17_InterruptLeavesWholeRecords ==
    /\ []((entry = "__main__" /\ pc \in {"poll", "confirm", "name", "query_self", "walk",
                                         "open", "write", "close"})
            => ENABLED Interrupt)
    /\ [][/\ pc # "exited"
          /\ pc' = "exited"
                => /\ exc' = "KeyboardInterrupt"
                   /\ \/ store' = store
                      \/ /\ pc = "close"
                         /\ store' = store \o rule
                         /\ IsRuleLine(rule)]_vars
    /\ [][pc # "exited"]_vars

\* C17 witness: the interrupt came between f.write and the end of the with
\* block, and the rule is in the file.
C17_Witness ==
    /\ pc = "exited"
    /\ Places("write") # {}
    /\ \A i \in Places("print") : io[i].arg # <<"Rule added">>
    /\ rule # <<>>
    /\ store = pre \o rule

\* The text of a line before its first "=", the whole line when it has none.
KeyOf(line) == SubSeq(line, 1, find(line, "=", 1) - 1)

\* The text of a line after its first "=".
ValueOf(line) ==
    LET k == CHOOSE k \in 1..Len(line) :
                 line[k] = "=" /\ \A j \in 1..(k - 1) : line[j] # "="
    IN  [i \in 1..(Len(line) - k) |-> line[k + i]]

\* The name, followed by "=", stands somewhere in the line.
Mentions(line, name) ==
    \E i \in 1..(Len(line) - 1) : line[i] = name /\ line[i + 1] = "="

\* The attribute a line gives under the reading "the key is exactly the name".
FieldByKey(line) ==
    IF KeyOf(line) = <<"ID_VENDOR_ID">> /\ KeyOf(line) # line THEN "idVendor"
    ELSE IF KeyOf(line) = <<"ID_MODEL_ID">> /\ KeyOf(line) # line THEN "idProduct"
    ELSE IF KeyOf(line) = <<"ID_SERIAL_SHORT">> /\ KeyOf(line) # line THEN "serial"
    ELSE "none"

\* The attribute a line gives under the reading "the line contains name=",
\* the three names tried in the order of the if/elif chain.
FieldByMention(line) ==
    IF Mentions(line, "ID_VENDOR_ID") THEN "idVendor"
    ELSE IF Mentions(line, "ID_MODEL_ID") THEN "idProduct"
    ELSE IF Mentions(line, "ID_SERIAL_SHORT") THEN "serial"
    ELSE "none"

\* The answer r of a query holds, for each attribute, the value of the last
\* line of the output that gives the attribute under the reading Field, and
\* nothing else.
ParsedBy(r, Field(_)) ==
    LET lines == splitlines(r.output)
        Giving(f) == {i \in 1..Len(lines) : Field(lines[i]) = f}
        Last(S) == CHOOSE i \in S : \A j \in S : j <= i
    IN  /\ DOMAIN r.attrs \subseteq {"idVendor", "idProduct", "serial"}
        /\ \A f \in {"idVendor", "idProduct", "serial"} :
            /\ f \in DOMAIN r.attrs <=> Giving(f) # {}
            /\ Giving(f) # {} => r.attrs[f] = ValueOf(lines[Last(Giving(f))])

\* C18, as stated: an attribute is taken only from the lines whose key, the
\* text before the first "=", is exactly its name, and its value is the text
\* after the first "=".
C18_ExactKeyMatch ==
    \A i \in 1..Len(answers) :
        answers[i].kind = "ok" => ParsedBy(answers[i], FieldByKey)

\* C18, amended: an attribute is taken from every line in which its name
\* followed by "=" stands anywhere, in the key or in the value, the names
\* tried in the order vendor, model, serial; the value is the text after the
\* first "=" of the line, and a later line replaces an earlier one.  A key in
\* which other text stands between the name and "=" gives nothing, and a
\* query that udevadm fails gives no attribute.
C18_NameAnywhereInLine ==
    \A i \in 1..Len(answers) :
        /\ answers[i].kind = "ok" => ParsedBy(answers[i], FieldByMention)
        /\ answers[i].kind # "ok" => answers[i].attrs = EmptyDict

\* C18 witness: the output had a DEVLINKS line whose value holds
\* "ID_VENDOR_ID=" and a line "ID_MODEL_ID=6001"; the vendor is the whole value
\* of the DEVLINKS line.
C18_Witness ==
    /\ pc = "queried"
    /\ Len(splitlines(answers[1].output)) = 2
    /\ "idProduct" \in DOMAIN attrs
    /\ "idVendor" \in DOMAIN attrs
    /\ attrs["idVendor"] = <<"/dev/serial/by-id/x", " ", "ID_VENDOR_ID", "=", "dead">>

\* C19: what get_device_attributes returns is either the empty set or the
\* attributes of the one node queried last, exactly as parsed from that node's
\* own output, with idVendor and idProduct among them: nothing of an earlier
\* node is carried into it; and the loop passes to append_udev_rule only a
\* set with both keys.
C19_EmptyOrOneNodesOwnSet ==
    /\ pc = "resolved"
        => \/ attrs = EmptyDict
           \/ /\ answers # <<>>
              /\ InChainOrder
              /\ answers[Len(answers)].kind = "ok"
              /\ ParsedBy(answers[Len(answers)], FieldByMention)
              /\ attrs = answers[Len(answers)].attrs
              /\ HasBoth(attrs)
    /\ (entry = "__main__" /\ pc \in {"append", "open", "write", "close"})
        => HasBoth(attrs)

\* C19 witness: the leaf gave a serial only, its parent gave vendor and
\* product and no serial, and the result has no serial.
C19_Witness ==
    /\ pc = "resolved"
    /\ Len(answers) = 2
    /\ DOMAIN answers[1].attrs = {"serial"}
    /\ DOMAIN attrs = {"idVendor", "idProduct"}

\* C20: get_device_attributes comes to an end on every chain, by returning
\* or by the error of a query; meanwhile its k-th query is the only one that
\* goes to the k-th node of the chain, leaf first, so there are never more
\* queries than nodes, and it names the node by its device node when it has
\* one and by its sysfs path otherwise.
C20_EndsWithinChainLength ==
    /\ [](/\ InChainOrder
          /\ Len(Ops("query")) <= Len(device)
          /\ \A j, k \in 1..Len(Ops("query")) :
                j # k => Ops("query")[j].arg # Ops("query")[k].arg)
    /\ <>(pc \in {"resolved", "crashed"})

\* C20 witness: a chain of three nodes was queried to its root, the leaf by
\* its device node and its parent, which has none, by its sysfs path.
C20_Witness ==
    /\ pc = "resolved"
    /\ Len(device) = 3
    /\ Len(Ops("query")) = 3
    /\ device[1].device_node # <<>>
    /\ Ops("query")[1].arg = device[1].device_node
    /\ device[2].device_node = <<>>
    /\ Ops("query")[2].arg = device[2].sys_path

====
